---- MODULE Spec2Model ----
(***************************************************************************)
(* A model of extract.py, a recovery tool that decodes the SQLite 3        *)
(* on-disk format: varints, serial types, records, table b-tree pages,     *)
(* the free-list chain, and the driver that sweeps the pages of a file.    *)
(*                                                                         *)
(* Bytes are numbers 0..255 and a byte string is a sequence of them.       *)
(* Python indexes from 0 and TLA+ from 1: At and PySlice take Python       *)
(* offsets.  Python integers are unbounded and TLC's are 32 bits wide, so  *)
(* the value read_varint accumulates is kept as a binary numeral (a        *)
(* sequence of bits, most significant first) and column integers are kept  *)
(* as their 8-byte two's-complement image.                                 *)
(***************************************************************************)
EXTENDS Integers, Sequences, FiniteSets, TLC

VARIABLES
    data,                  \* main: the file image read from the input
    pc,                    \* main: position of the driver
    page_size,             \* main: page size taken from the header
    freelist_trunk_page,   \* main: header bytes 32..35
    total_freelist_pages,  \* main: header bytes 36..39
    next_trunk_page,       \* get_freelist_pages: trunk to visit next
    pages_collected,       \* get_freelist_pages: leaves counted so far
    freelist_pages,        \* get_freelist_pages: the list it builds, then main's
    num_pages,             \* main: len(data) // page_size
    page_number,           \* main: position in the current for loop
    records,               \* main: the record buffer
    sink,                  \* what main hands to the writer
    diag,                  \* lines printed on the diagnostic stream
    raised,                \* where an uncaught exception came from, "" if none
    calls,                 \* history: page numbers handed to parse_page
    trunk_iters,           \* history: iterations of the walker's while loop
    rows,                  \* history: the rows the image was built from
    fn_in,                 \* argument of the function under test
    fn_out                 \* its result

vars == <<data, pc, page_size, freelist_trunk_page, total_freelist_pages,
          next_trunk_page, pages_collected, freelist_pages, num_pages,
          page_number, records, sink, diag, raised, calls, trunk_iters,
          rows, fn_in, fn_out>>

--------------------------------------------------------------------------
(* Python sequence primitives *)

Min(a, b) == IF a < b THEN a ELSE b

Max(a, b) == IF a > b THEN a ELSE b

\* data[i] for 0 <= i < len(data)
At(s, i) == s[i + 1]

\* A slice bound as Python normalises it: negative bounds count from the end.
SliceBound(i, n) == IF i < 0 THEN Max(i + n, 0) ELSE Min(i, n)

\* s[a:b]
PySlice(s, a, b) == SubSeq(s, SliceBound(a, Len(s)) + 1, SliceBound(b, Len(s)))

\* [x] * n
Repeat(x, n) == [i \in 1..n |-> x]

RECURSIVE Concat(_)
\* the concatenation of a sequence of sequences
Concat(ss) == IF ss = <<>> THEN <<>> ELSE Head(ss) \o Concat(Tail(ss))

--------------------------------------------------------------------------
(* Integers wider than TLC's *)

RECURSIVE Bits(_, _)
\* the w-bit binary numeral of x, most significant bit first
Bits(x, w) == IF w = 0 THEN <<>> ELSE Append(Bits(x \div 2, w - 1), x % 2)

RECURSIVE Num(_)
\* the number a binary numeral denotes (exact below 2^31)
Num(b) == IF b = <<>> THEN 0 ELSE 2 * Num(SubSeq(b, 1, Len(b) - 1)) + b[Len(b)]

\* struct.unpack('>H', s)[0] and struct.unpack('>I', s)[0] on a slice of the
\* right length
RECURSIVE BigEndian(_)
BigEndian(s) == IF s = <<>> THEN 0 ELSE 256 * BigEndian(SubSeq(s, 1, Len(s) - 1)) + s[Len(s)]

\* The 8-byte two's-complement image of the signed big-endian integer in s:
\* what int.from_bytes(s, 'big', signed=True) and struct's b, h, i, q formats
\* denote.  The empty string denotes 0.
SignExtend(s) ==
    LET fill == IF s # <<>> /\ s[1] >= 128 THEN 255 ELSE 0
    IN  Repeat(fill, 8 - Len(s)) \o s

--------------------------------------------------------------------------
(* read_varint *)

\* (value << 7) | b for b < 128
ShiftOr7(value, b) == value \o Bits(b, 7)

RECURSIVE VarintLoop(_, _, _, _)
\* the for loop of read_varint from iteration i with the value so far
VarintLoop(d, offset, i, value) ==
    IF i = 9 THEN [ok |-> TRUE, value |-> value, n |-> 9]
    ELSE IF offset + i >= Len(d) THEN [ok |-> FALSE, value |-> <<>>, n |-> 0]
    ELSE LET byte == At(d, offset + i)
         IN  IF byte < 128
             THEN [ok |-> TRUE, value |-> ShiftOr7(value, byte), n |-> i + 1]
             ELSE VarintLoop(d, offset, i + 1, ShiftOr7(value, byte % 128))

\* ok = FALSE stands for the IndexError
read_varint(d, offset) == VarintLoop(d, offset, 0, <<>>)

--------------------------------------------------------------------------
(* bytes.decode('utf-8', errors='replace') *)

\* the bytes a lead byte is followed by, the range of the first of them and
\* the bits of the code point the lead byte carries; need = 0 for a byte that
\* cannot start a sequence
Utf8Lead(b) ==
    CASE b >= 194 /\ b <= 223 -> [need |-> 1, lo |-> 128, hi |-> 191, cp |-> b % 32]
      [] b = 224              -> [need |-> 2, lo |-> 160, hi |-> 191, cp |-> b % 16]
      [] b = 237              -> [need |-> 2, lo |-> 128, hi |-> 159, cp |-> b % 16]
      [] b >= 225 /\ b <= 239 /\ b # 237
                              -> [need |-> 2, lo |-> 128, hi |-> 191, cp |-> b % 16]
      [] b = 240              -> [need |-> 3, lo |-> 144, hi |-> 191, cp |-> b % 8]
      [] b = 244              -> [need |-> 3, lo |-> 128, hi |-> 143, cp |-> b % 8]
      [] b >= 241 /\ b <= 243 -> [need |-> 3, lo |-> 128, hi |-> 191, cp |-> b % 8]
      [] OTHER                -> [need |-> 0, lo |-> 0, hi |-> 0, cp |-> 0]

\* U+FFFD, what the decoder substitutes for an ill-formed sequence
Replacement == 65533

RECURSIVE Utf8Tail(_, _, _, _, _)
\* continuation byte k of the sequence that starts at i: the code point and
\* the offset after it, or the replacement and the offset to resume at
Utf8Tail(s, i, k, lead, cp) ==
    IF k > lead.need THEN [cp |-> cp, next |-> i + lead.need + 1]
    ELSE IF i + k >= Len(s) THEN [cp |-> Replacement, next |-> Len(s)]
    ELSE LET c  == At(s, i + k)
             lo == IF k = 1 THEN lead.lo ELSE 128
             hi == IF k = 1 THEN lead.hi ELSE 191
         IN  IF c < lo \/ c > hi
             THEN [cp |-> Replacement, next |-> i + k]
             ELSE Utf8Tail(s, i, k + 1, lead, (cp * 64) + (c % 64))

RECURSIVE Utf8From(_, _)
\* the code points decoded from offset i on
Utf8From(s, i) ==
    IF i >= Len(s) THEN <<>>
    ELSE LET b == At(s, i)
         IN  IF b < 128 THEN <<b>> \o Utf8From(s, i + 1)
             ELSE IF Utf8Lead(b).need = 0 THEN <<Replacement>> \o Utf8From(s, i + 1)
             ELSE LET t == Utf8Tail(s, i, 1, Utf8Lead(b), Utf8Lead(b).cp)
                  IN  <<t.cp>> \o Utf8From(s, t.next)

Utf8Decode(s) == Utf8From(s, 0)

--------------------------------------------------------------------------
(* parse_serial_type *)

\* A column value: its Python type and what it holds.  An int holds its
\* 8-byte two's-complement image, a float its 8 IEEE-754 bytes, bytes its
\* bytes, str its code points.
Value(t, v) == [t |-> t, v |-> v]

PyNone == Value("None", <<>>)

PyInt(s) == Value("int", SignExtend(s))

\* struct.unpack of a format of the given width: struct.error unless the
\* slice has exactly that many bytes
Unpack(kind, s, width) ==
    IF Len(s) # width THEN [ok |-> FALSE, value |-> PyNone, length |-> 0]
    ELSE [ok |-> TRUE, value |-> Value(kind, IF kind = "int" THEN SignExtend(s) ELSE s),
          length |-> width]

\* ok = FALSE stands for the struct.error
parse_serial_type(d, offset, serial_type) ==
    IF serial_type >= 12 /\ serial_type % 2 = 0 THEN
        LET length == (serial_type - 12) \div 2
        IN  [ok |-> TRUE, value |-> Value("bytes", PySlice(d, offset, offset + length)),
             length |-> length]
    ELSE IF serial_type >= 13 /\ serial_type % 2 = 1 THEN
        LET length == (serial_type - 13) \div 2
        IN  [ok |-> TRUE,
             value |-> Value("str", Utf8Decode(PySlice(d, offset, offset + length))),
             length |-> length]
    ELSE IF serial_type = 0 THEN [ok |-> TRUE, value |-> PyNone, length |-> 0]
    ELSE IF serial_type = 1 THEN Unpack("int", PySlice(d, offset, offset + 1), 1)
    ELSE IF serial_type = 2 THEN Unpack("int", PySlice(d, offset, offset + 2), 2)
    ELSE IF serial_type = 3 THEN
        [ok |-> TRUE, value |-> PyInt(PySlice(d, offset, offset + 3)), length |-> 3]
    ELSE IF serial_type = 4 THEN Unpack("int", PySlice(d, offset, offset + 4), 4)
    ELSE IF serial_type = 5 THEN
        [ok |-> TRUE, value |-> PyInt(PySlice(d, offset, offset + 6)), length |-> 6]
    ELSE IF serial_type = 6 THEN Unpack("int", PySlice(d, offset, offset + 8), 8)
    ELSE IF serial_type = 7 THEN Unpack("float", PySlice(d, offset, offset + 8), 8)
    ELSE IF serial_type = 8 THEN [ok |-> TRUE, value |-> PyInt(<<0>>), length |-> 0]
    ELSE IF serial_type = 9 THEN [ok |-> TRUE, value |-> PyInt(<<1>>), length |-> 0]
    ELSE [ok |-> TRUE, value |-> PyNone, length |-> 0]

--------------------------------------------------------------------------
(* parse_record *)

\* parse_record returning None
Rejected == [ok |-> FALSE, values |-> <<>>]

RECURSIVE SerialTypes(_, _, _, _, _)
\* the while loop that reads the serial types: the list, or ok = FALSE when
\* read_varint raises
SerialTypes(d, header_offset, bytes_read, header_length, serial_types) ==
    IF bytes_read >= header_length THEN [ok |-> TRUE, types |-> serial_types]
    ELSE LET r == read_varint(d, header_offset)
         IN  IF ~r.ok THEN [ok |-> FALSE, types |-> <<>>]
             ELSE SerialTypes(d, header_offset + r.n, bytes_read + r.n, header_length,
                              Append(serial_types, Num(r.value)))

RECURSIVE Values(_, _, _, _)
\* the for loop that decodes one value per serial type
Values(d, value_offset, serial_types, values) ==
    IF serial_types = <<>> THEN [ok |-> TRUE, values |-> values]
    ELSE LET r == parse_serial_type(d, value_offset, Head(serial_types))
         IN  IF ~r.ok THEN Rejected
             ELSE Values(d, value_offset + r.length, Tail(serial_types),
                         Append(values, r.value))

parse_record(d, offset, payload_length) ==
    LET h == read_varint(d, offset)
    IN  IF ~h.ok THEN Rejected
        ELSE LET header_length == Num(h.value)
             IN  IF header_length > payload_length THEN Rejected
                 ELSE LET st == SerialTypes(d, offset + h.n, h.n, header_length, <<>>)
                      IN  IF ~st.ok THEN Rejected
                          ELSE Values(d, offset + header_length, st.types, <<>>)

--------------------------------------------------------------------------
(* parse_page *)

TableLeaf == 13

TableInterior == 5

\* "if record is not None:" in place of "if record:"
TruthyNotNone(record) == record.ok

\* "if record:": neither None nor an empty list
Truthy(record) == record.ok /\ record.values # <<>>

\* The body of the try block for one cell pointer: the record read there,
\* Rejected when a varint read raises (the except clause skips the cell).
Cell(page_data, page_type, cell_pointer) ==
    LET p == read_varint(page_data, cell_pointer)
    IN  IF ~p.ok THEN Rejected
        ELSE LET o1 == cell_pointer + p.n
                 l  == IF page_type = TableInterior
                       THEN read_varint(page_data, o1)
                       ELSE [ok |-> TRUE, value |-> <<>>, n |-> 0]
             IN  IF ~l.ok THEN Rejected
                 ELSE LET r == read_varint(page_data, o1 + l.n)
                      IN  IF ~r.ok THEN Rejected
                          ELSE LET cell_offset    == o1 + l.n + r.n
                                   payload_length == Num(p.value)
                                   payload        == PySlice(page_data, cell_offset,
                                                             cell_offset + payload_length)
                               IN  parse_record(payload, 0, payload_length)

\* the first for loop: the pointers whose slot lies inside the page
CellPointers(page_data, header_size, num_cells) ==
    LET slots == SelectSeq([k \in 1..num_cells |-> header_size + (k - 1) * 2],
                           LAMBDA ptr_offset : ptr_offset + 2 <= Len(page_data))
    IN  [k \in 1..Len(slots) |-> BigEndian(PySlice(page_data, slots[k], slots[k] + 2))]

RECURSIVE CellsBreak(_, _, _, _)
\* the second for loop leaving at the first cell that yields no record, as
\* "break" in place of "continue" would
CellsBreak(page_data, page_type, cell_pointers, recs) ==
    IF cell_pointers = <<>> THEN recs
    ELSE LET record == Cell(page_data, page_type, Head(cell_pointers))
         IN  IF Truthy(record)
             THEN CellsBreak(page_data, page_type, Tail(cell_pointers),
                             Append(recs, record.values))
             ELSE recs

RECURSIVE Cells(_, _, _, _)
\* the second for loop: the buffer after the cells from pointer k on
Cells(page_data, page_type, cell_pointers, recs) ==
    IF cell_pointers = <<>> THEN recs
    ELSE LET record == Cell(page_data, page_type, Head(cell_pointers))
         IN  Cells(page_data, page_type, Tail(cell_pointers),
                   IF Truthy(record) THEN Append(recs, record.values) ELSE recs)

\* data[page_offset:page_offset+page_size]
PageData(d, page_no, psize) == PySlice(d, page_no * psize, page_no * psize + psize)

\* The buffer after the call, or raised = TRUE for the struct.error of the
\* cell-count read, which no try block encloses.
parse_page(d, page_no, psize, recs) ==
    LET page_data == PageData(d, page_no, psize)
    IN  IF Len(page_data) = 0 THEN [raised |-> FALSE, records |-> recs]
        ELSE LET page_type == At(page_data, 0)
             IN  IF page_type \notin {TableLeaf, TableInterior}
                 THEN [raised |-> FALSE, records |-> recs]
                 ELSE IF Len(PySlice(page_data, 3, 5)) # 2
                 THEN [raised |-> TRUE, records |-> recs]
                 ELSE LET num_cells   == BigEndian(PySlice(page_data, 3, 5))
                          header_size == IF page_type = TableLeaf THEN 8 ELSE 12
                      IN  [raised |-> FALSE,
                           records |-> Cells(page_data, page_type,
                                             CellPointers(page_data, header_size, num_cells),
                                             recs)]

--------------------------------------------------------------------------
(* get_freelist_pages: one iteration of its while loop *)

\* b'SQLite format 3\x00'
Magic == <<83, 81, 76, 105, 116, 101, 32, 102, 111, 114, 109, 97, 116, 32, 51, 0>>

\* the length check without the magic check
HeaderLongEnough(d) == Len(d) >= 100

\* the two header checks of main
HeaderValid(d) == Len(d) >= 100 /\ PySlice(PySlice(d, 0, 100), 0, 16) = Magic

\* the page size main takes from the header
PageSize(d) ==
    LET field == BigEndian(PySlice(d, 16, 18))
    IN  IF field = 1 THEN 65536 ELSE field

\* the while condition of get_freelist_pages
WalkOn(trunk, collected, total) == trunk # 0 /\ collected < total

RECURSIVE Leaves(_, _, _)
\* The for loop over the n leaf slots of a trunk from slot i on: the page
\* indices appended, and whether it broke out on a slot past the page.
Leaves(page_data, n, i) ==
    IF i >= n THEN [pages |-> <<>>, short |-> FALSE]
    ELSE IF 8 + i * 4 + 4 > Len(page_data) THEN [pages |-> <<>>, short |-> TRUE]
    ELSE LET page_num == BigEndian(PySlice(page_data, 8 + i * 4, 8 + i * 4 + 4))
             rest     == Leaves(page_data, n, i + 1)
         IN  [pages |-> <<page_num - 1>> \o rest.pages, short |-> rest.short]

\* the body of the while loop returning an empty list when the trunk is out
\* of bounds
TrunkForgets(d, psize, trunk, pages, collected) ==
    LET page_offset == (trunk - 1) * psize
        page_data   == PySlice(d, page_offset, page_offset + psize)
    IN  IF page_offset + psize > Len(d)
        THEN [pages |-> <<>>, collected |-> collected, next |-> trunk,
              printed |-> <<"page offset out of bounds">>, break |-> TRUE]
        ELSE IF Len(page_data) < 8
        THEN [pages |-> Append(pages, trunk - 1), collected |-> collected, next |-> trunk,
              printed |-> <<"insufficient data to read trunk">>, break |-> TRUE]
        ELSE LET n  == BigEndian(PySlice(page_data, 4, 8))
                 lv == Leaves(page_data, n, 0)
             IN  [pages |-> Append(pages, trunk - 1) \o lv.pages,
                  collected |-> collected + Len(lv.pages),
                  next |-> BigEndian(PySlice(page_data, 0, 4)),
                  printed |-> IF lv.short THEN <<"insufficient data to read leaf">>
                              ELSE <<>>,
                  break |-> FALSE]

\* The body of the while loop for the trunk it is at: the list, the count and
\* the next trunk after it, the lines it prints, and whether it breaks out.
Trunk(d, psize, trunk, pages, collected) ==
    LET page_offset == (trunk - 1) * psize
        page_data   == PySlice(d, page_offset, page_offset + psize)
    IN  IF page_offset + psize > Len(d)
        THEN [pages |-> pages, collected |-> collected, next |-> trunk,
              printed |-> <<"page offset out of bounds">>, break |-> TRUE]
        ELSE IF Len(page_data) < 8
        THEN [pages |-> Append(pages, trunk - 1), collected |-> collected, next |-> trunk,
              printed |-> <<"insufficient data to read trunk">>, break |-> TRUE]
        ELSE LET n  == BigEndian(PySlice(page_data, 4, 8))
                 lv == Leaves(page_data, n, 0)
             IN  [pages |-> Append(pages, trunk - 1) \o lv.pages,
                  collected |-> collected + Len(lv.pages),
                  next |-> BigEndian(PySlice(page_data, 0, 4)),
                  printed |-> IF lv.short THEN <<"insufficient data to read leaf">>
                              ELSE <<>>,
                  break |-> FALSE]

--------------------------------------------------------------------------
(* main *)

\* most iterations of the walker's loop the model follows
MaxTrunkIters == 6

\* the free-list pages the first loop has not parsed already
FreePagesNotSwept(pages, n) == SelectSeq(pages, LAMBDA q : q < 0 \/ q >= n)

\* the pages the second loop of main hands to parse_page
FreePagesToParse(pages, n) == pages

\* record.extend([None] * (max_fields - num_fields)) over the buffer
Padded(recs) ==
    LET max_fields == IF recs = <<>> THEN 0
                      ELSE CHOOSE m \in {Len(recs[k]) : k \in 1..Len(recs)} :
                               \A k \in 1..Len(recs) : Len(recs[k]) <= m
    IN  [k \in 1..Len(recs) |-> recs[k] \o Repeat(PyNone, max_fields - Len(recs[k]))]

walk_vars == <<next_trunk_page, pages_collected, freelist_pages, trunk_iters>>

\* len(data) < 100 or the magic differs: sys.exit(1)
ValidateFail ==
    /\ pc = "start"
    /\ ~HeaderValid(data)
    /\ pc' = "fatal"
    /\ diag' = Append(diag, IF Len(data) < 100 THEN "file is too small"
                            ELSE "not a valid SQLite 3 database file")
    /\ UNCHANGED <<data, page_size, freelist_trunk_page, total_freelist_pages,
                   walk_vars, num_pages, page_number, records, sink, raised, calls,
                   rows, fn_in, fn_out>>

\* the header fields are read and the walker is entered if there is a trunk
ReadHeader ==
    /\ pc = "start"
    /\ HeaderValid(data)
    /\ page_size' = PageSize(data)
    /\ freelist_trunk_page' = BigEndian(PySlice(data, 32, 36))
    /\ total_freelist_pages' = BigEndian(PySlice(data, 36, 40))
    /\ next_trunk_page' = freelist_trunk_page'
    /\ pc' = IF freelist_trunk_page' # 0 THEN "walk" ELSE "count"
    /\ UNCHANGED <<data, pages_collected, freelist_pages, trunk_iters, num_pages,
                   page_number, records, sink, diag, raised, calls, rows, fn_in, fn_out>>

\* one iteration of the while loop of get_freelist_pages
WalkTrunk ==
    /\ pc = "walk"
    /\ WalkOn(next_trunk_page, pages_collected, total_freelist_pages)
    /\ trunk_iters < MaxTrunkIters
    /\ LET t == Trunk(data, page_size, next_trunk_page, freelist_pages, pages_collected)
       IN  /\ freelist_pages' = t.pages
           /\ pages_collected' = t.collected
           /\ next_trunk_page' = t.next
           /\ diag' = diag \o t.printed
           /\ pc' = IF t.break THEN "count" ELSE "walk"
    /\ trunk_iters' = trunk_iters + 1
    /\ UNCHANGED <<data, page_size, freelist_trunk_page, total_freelist_pages,
                   num_pages, page_number, records, sink, raised, calls, rows,
                   fn_in, fn_out>>

\* the while condition fails and get_freelist_pages returns
WalkReturn ==
    /\ pc = "walk"
    /\ ~WalkOn(next_trunk_page, pages_collected, total_freelist_pages)
    /\ pc' = "count"
    /\ UNCHANGED <<data, page_size, freelist_trunk_page, total_freelist_pages,
                   walk_vars, num_pages, page_number, records, sink, diag, raised,
                   calls, rows, fn_in, fn_out>>

\* num_pages = len(data) // page_size, a ZeroDivisionError for page size 0
CountPages ==
    /\ pc = "count"
    /\ IF page_size = 0
       THEN /\ pc' = "crashed"
            /\ raised' = "main"
            /\ UNCHANGED <<num_pages, page_number>>
       ELSE /\ pc' = "sweep"
            /\ num_pages' = Len(data) \div page_size
            /\ page_number' = 0
            /\ UNCHANGED raised
    /\ UNCHANGED <<data, page_size, freelist_trunk_page, total_freelist_pages,
                   walk_vars, records, sink, diag, calls, rows, fn_in, fn_out>>

\* a call of parse_page from main: an exception it raises ends the run
CallParsePage(page_no) ==
    LET r == parse_page(data, page_no, page_size, records)
    IN  /\ calls' = Append(calls, page_no)
        /\ IF r.raised
           THEN /\ pc' = "crashed"
                /\ raised' = "parse_page"
                /\ UNCHANGED <<records, page_number>>
           ELSE /\ records' = r.records
                /\ page_number' = page_number + 1
                /\ UNCHANGED <<pc, raised>>

\* one iteration of "for page_number in range(num_pages)"
SweepPage ==
    /\ pc = "sweep"
    /\ page_number < num_pages
    /\ CallParsePage(page_number)
    /\ UNCHANGED <<data, page_size, freelist_trunk_page, total_freelist_pages,
                   walk_vars, num_pages, sink, diag, rows, fn_in, fn_out>>

\* the first loop ends: "if freelist_pages:" with its else branch
SweepDone ==
    /\ pc = "sweep"
    /\ page_number = num_pages
    /\ IF freelist_pages # <<>>
       THEN /\ pc' = "free"
            /\ page_number' = 0
            /\ UNCHANGED diag
       ELSE /\ pc' = "emit"
            /\ diag' = Append(diag, "no freelist pages found")
            /\ UNCHANGED page_number
    /\ UNCHANGED <<data, page_size, freelist_trunk_page, total_freelist_pages,
                   walk_vars, num_pages, records, sink, raised, calls, rows,
                   fn_in, fn_out>>

\* one iteration of "for page_number in freelist_pages"; page_number is the
\* position in the list
FreePage ==
    /\ pc = "free"
    /\ page_number < Len(FreePagesToParse(freelist_pages, num_pages))
    /\ CallParsePage(FreePagesToParse(freelist_pages, num_pages)[page_number + 1])
    /\ UNCHANGED <<data, page_size, freelist_trunk_page, total_freelist_pages,
                   walk_vars, num_pages, sink, diag, rows, fn_in, fn_out>>

FreeDone ==
    /\ pc = "free"
    /\ page_number = Len(FreePagesToParse(freelist_pages, num_pages))
    /\ pc' = "emit"
    /\ UNCHANGED <<data, page_size, freelist_trunk_page, total_freelist_pages,
                   walk_vars, num_pages, page_number, records, sink, diag, raised,
                   calls, rows, fn_in, fn_out>>

\* "if not records: sys.exit(1)", else every record goes to the writer
Emit ==
    /\ pc = "emit"
    /\ IF records = <<>>
       THEN /\ pc' = "norecords"
            /\ diag' = Append(diag, "no records recovered")
            /\ UNCHANGED sink
       ELSE /\ pc' = "done"
            /\ sink' = Padded(records)
            /\ diag' = Append(diag, "data recovery complete")
    /\ UNCHANGED <<data, page_size, freelist_trunk_page, total_freelist_pages,
                   walk_vars, num_pages, page_number, records, raised, calls, rows,
                   fn_in, fn_out>>

Next ==
    \/ ValidateFail
    \/ ReadHeader
    \/ WalkTrunk
    \/ WalkReturn
    \/ CountPages
    \/ SweepPage
    \/ SweepDone
    \/ FreePage
    \/ FreeDone
    \/ Emit

--------------------------------------------------------------------------
(* The file images main is run on, written as the format lays them out:
   what the decoders above read back *)

\* struct.pack('>H', n)
U16(n) == <<n \div 256, n % 256>>

\* struct.pack('>I', n)
U32(n) == <<n \div 16777216, (n \div 65536) % 256, (n \div 256) % 256, n % 256>>

\* the varint of n < 2^14
EncVarint(n) == IF n < 128 THEN <<n>> ELSE <<128 + (n \div 128), n % 128>>

\* the 100-byte header: magic, page size at 16, first trunk at 32, free-list
\* count at 36
FileHeader(psize_field, trunk, total) ==
    Magic \o U16(psize_field) \o Repeat(0, 14) \o U32(trunk) \o U32(total) \o Repeat(0, 60)

\* A column of a row: None, an int n with |n| < 2^23, a str of code points
\* below 2^11, or bytes.
Col(t, n, s) == [t |-> t, n |-> n, s |-> s]

RECURSIVE Utf8Encode(_)
Utf8Encode(cps) ==
    IF cps = <<>> THEN <<>>
    ELSE LET c == Head(cps)
         IN  (IF c < 128 THEN <<c>> ELSE <<192 + (c \div 64), 128 + (c % 64)>>)
             \o Utf8Encode(Tail(cps))

\* the bytes a column is stored in
ColBody(c) ==
    CASE c.t = "int" /\ c.n \in {0, 1}             -> <<>>
      [] c.t = "int" /\ c.n \in -128..-1 \cup 2..127 -> <<(c.n + 256) % 256>>
      [] c.t = "int" /\ (c.n < -128 \/ c.n > 127) /\ c.n >= -32768 /\ c.n <= 32767
                                                   -> U16((c.n + 65536) % 65536)
      [] c.t = "int" /\ (c.n < -32768 \/ c.n > 32767)
                                                   -> Tail(U32((c.n + 16777216) % 16777216))
      [] c.t = "str"                               -> Utf8Encode(c.s)
      [] c.t = "bytes"                             -> c.s
      [] OTHER                                     -> <<>>

\* the serial type a column is stored under
ColType(c) ==
    CASE c.t = "int" /\ c.n = 0 -> 8
      [] c.t = "int" /\ c.n = 1 -> 9
      [] c.t = "int" /\ c.n \notin {0, 1} -> Len(ColBody(c))
      [] c.t = "str"   -> 13 + 2 * Len(ColBody(c))
      [] c.t = "bytes" -> 12 + 2 * Len(ColBody(c))
      [] OTHER         -> 0

\* the value SELECT returns for a column, as parse_serial_type represents it
ColValue(c) ==
    CASE c.t = "int"   -> Value("int", IF c.n >= 0
                                       THEN Repeat(0, 5) \o Tail(U32(c.n))
                                       ELSE Repeat(255, 5) \o Tail(U32(c.n + 16777216)))
      [] c.t = "str"   -> Value("str", c.s)
      [] c.t = "bytes" -> Value("bytes", c.s)
      [] OTHER         -> PyNone

\* the tuple of a row
RowValues(row) == [k \in 1..Len(row) |-> ColValue(row[k])]

\* a record: header length, serial types, bodies
EncRecord(row) ==
    LET types == Concat([k \in 1..Len(row) |-> EncVarint(ColType(row[k]))])
    IN  EncVarint(1 + Len(types)) \o types \o Concat([k \in 1..Len(row) |-> ColBody(row[k])])

\* a table-leaf cell: payload length, rowid, payload
LeafCell(rowid, payload) == EncVarint(Len(payload)) \o EncVarint(rowid) \o payload

\* a table-interior cell in the layout parse_page reads: payload length,
\* left child, rowid, payload
InteriorCell(left_child, rowid, payload) ==
    EncVarint(Len(payload)) \o EncVarint(left_child) \o EncVarint(rowid) \o payload

RECURSIVE TotalLen(_)
TotalLen(ss) == IF ss = <<>> THEN 0 ELSE Len(Head(ss)) + TotalLen(Tail(ss))

\* the offset in its page of cell k: the cells fill the page from its end
CellOffset(cells, k, psize) == psize - TotalLen(SubSeq(cells, 1, k))

\* A b-tree page of psize bytes whose header starts at byte before (100 on
\* page 1, else 0): page type, cell count, start of the cell content, the
\* cell pointers, then the cells at the end of the page.  The bytes from
\* the header on.
BTreePage(before, page_type, cells, psize) ==
    LET n       == Len(cells)
        header  == <<page_type, 0, 0>> \o U16(n) \o U16(CellOffset(cells, n, psize) % 65536)
                   \o <<0>> \o (IF page_type = TableInterior THEN U32(0) ELSE <<>>)
        ptrs    == Concat([k \in 1..n |-> U16(CellOffset(cells, k, psize))])
        content == Concat([k \in 1..n |-> cells[n + 1 - k]])
    IN  header \o ptrs
        \o Repeat(0, psize - before - Len(header) - Len(ptrs) - Len(content))
        \o content

\* a free-list trunk page: next trunk, leaf count, leaf page numbers
TrunkPage(next, n, leaves, psize) ==
    U32(next) \o U32(n) \o Concat([k \in 1..Len(leaves) |-> U32(leaves[k])])
    \o Repeat(0, psize - 8 - 4 * Len(leaves))

--------------------------------------------------------------------------
(* The images main is started on *)

IntCol(n) == Col("int", n, <<>>)

StrCol(cps) == Col("str", 0, cps)

\* ('table', 't', 't', 2, 'CREATE TABLE t(a,b)'), the row of sqlite_schema
\* that SQLite writes on page 1 for a table t rooted at page 2
SchemaRow ==
    <<StrCol(<<116, 97, 98, 108, 101>>), StrCol(<<116>>), StrCol(<<116>>), IntCol(2),
      StrCol(<<67, 82, 69, 65, 84, 69, 32, 84, 65, 66, 76, 69, 32, 116, 40, 97, 44, 98, 41>>)>>

\* the rows a table is filled from: (42, 'hi'), (-2, x'0102'),
\* (NULL, 300, 'é'), (0, 1, -70000)
RowMenu ==
    << <<IntCol(42), StrCol(<<104, 105>>)>>,
       <<IntCol(-2), Col("bytes", 0, <<1, 2>>)>>,
       <<Col("None", 0, <<>>), IntCol(300), StrCol(<<233>>)>>,
       <<IntCol(0), IntCol(1), IntCol(-70000)>> >>

\* most rows on one table page
MaxRows == 2

\* the page size of the well-formed images
ValidPageSize == 512

LeafOf(rs, before, psize) ==
    BTreePage(before, TableLeaf, [k \in 1..Len(rs) |-> LeafCell(k, EncRecord(rs[k]))], psize)

\* A well-formed database: page 1 holds the header and the leaf of
\* sqlite_schema, page 2 the leaf of table t with the rows rs.  With freed
\* rows, page 3 is a free-list trunk whose one leaf, page 4, still holds them.
ValidImage(rs, freed) ==
    [data |-> FileHeader(ValidPageSize, IF freed = <<>> THEN 0 ELSE 3,
                         IF freed = <<>> THEN 0 ELSE 2)
              \o LeafOf(<<SchemaRow>>, 100, ValidPageSize)
              \o LeafOf(rs, 0, ValidPageSize)
              \o (IF freed = <<>> THEN <<>>
                  ELSE TrunkPage(0, 1, <<4>>, ValidPageSize)
                       \o LeafOf(freed, 0, ValidPageSize)),
     rows |-> <<[page |-> 0, row |-> SchemaRow]>>
              \o [k \in 1..Len(rs) |-> [page |-> 1, row |-> rs[k]]]]

RECURSIVE MenuRows(_)
\* the sequences of n rows of the menu
MenuRows(n) ==
    IF n = 0 THEN {<<>>}
    ELSE {Append(rs, RowMenu[m]) : rs \in MenuRows(n - 1), m \in 1..Len(RowMenu)}

ValidImages ==
    {ValidImage(rs, freed) : rs \in UNION {MenuRows(n) : n \in 0..MaxRows},
                             freed \in {<<>>, <<RowMenu[1]>>}}

\* the page size of the damaged images
SmallPageSize == 32

\* a leaf with the row (42, 'hi') and two cells whose records have no column:
\* a header of its length byte alone, and a header length of 0
SmallLeaf ==
    BTreePage(0, TableLeaf,
              <<LeafCell(1, EncRecord(RowMenu[1])), LeafCell(2, <<1>>), LeafCell(3, <<0>>)>>,
              SmallPageSize)

\* an interior page with one cell in the layout parse_page reads
SmallInterior ==
    BTreePage(0, TableInterior, <<InteriorCell(2, 1, EncRecord(RowMenu[1]))>>, SmallPageSize)

\* A damaged image: the header with a padding up to page index 4, a table
\* page at index 4, two free-list trunks at indices 5 and 6 (page numbers 6
\* and 7), and what is left of a page at index 7.
SmallImage(psize_field, trunk, total, page4, trunk6, trunk7, tail) ==
    [data |-> FileHeader(psize_field, trunk, total) \o Repeat(0, 4 * SmallPageSize - 100)
              \o page4 \o trunk6 \o trunk7 \o tail,
     rows |-> <<>>]

\* what the last, partial page holds
Tails == {<<>>, <<13>>, <<13, 0, 0, 0, 0>>}

\* the free-list chains of the damaged images: next-trunk fields that end the
\* chain, point at the trunk itself, go on to the other trunk or leave the
\* file; leaf lists that name the table page (5), the partial page (8) and
\* page 0; leaf counts as listed or beyond the page
Trunks6 ==
    {TrunkPage(next, n, leaves, SmallPageSize) :
        next \in {0, 6, 7, 9}, n \in {0, 1, 2, 7},
        leaves \in {<<>>, <<5>>, <<8, 0>>}} 

Trunks7 ==
    {TrunkPage(next, Len(leaves), leaves, SmallPageSize) :
        next \in {0, 6}, leaves \in {<<>>, <<5>>}}

DamagedImages ==
    {SmallImage(SmallPageSize, trunk, total, page4, t6, t7, tail) :
        trunk \in {0, 6, 9}, total \in {0, 1, 3}, page4 \in {SmallLeaf, SmallInterior},
        t6 \in Trunks6, t7 \in Trunks7, tail \in Tails}

\* the same bytes under other page sizes: 0, 65536 (written 1), sizes below
\* the 8 bytes of a trunk header, and sizes the file is shorter than
OddPageSizes == {0, 1, 2, 4, 5, 16, 512}

OddSizeImages ==
    {SmallImage(psize_field, trunk, 3, page4, TrunkPage(0, 1, <<5>>, SmallPageSize),
                TrunkPage(0, 0, <<>>, SmallPageSize), tail) :
        psize_field \in OddPageSizes, trunk \in {0, 6}, page4 \in {SmallLeaf, SmallInterior},
        tail \in Tails}

\* images main refuses: cut below 100 bytes, or with a byte of the magic changed
WithByte(d, i, b) == [d EXCEPT ![i + 1] = b]

RefusedImages ==
    LET whole == {ValidImage(<<RowMenu[1]>>, <<RowMenu[1]>>),
                  SmallImage(SmallPageSize, 6, 3, SmallLeaf,
                             TrunkPage(0, 1, <<5>>, SmallPageSize),
                             TrunkPage(0, 0, <<>>, SmallPageSize), <<13>>)}
    IN  {[data |-> PySlice(img.data, 0, n), rows |-> img.rows] :
            img \in whole, n \in {0, 15, 16, 99}}
        \cup {[data |-> WithByte(img.data, i, 50), rows |-> img.rows] :
                img \in whole, i \in {0, 14, 15}}
        \cup {[data |-> WithByte(PySlice(img.data, 0, 100), 15, 1), rows |-> img.rows] :
                img \in whole}

\* a file of its header alone
BareHeaders == {[data |-> FileHeader(f, 0, 0), rows |-> <<>>] : f \in {SmallPageSize, 0}}

Images == ValidImages \cup DamagedImages \cup OddSizeImages \cup RefusedImages \cup BareHeaders

Init ==
    /\ \E img \in Images : data = img.data /\ rows = img.rows
    /\ pc = "start"
    /\ page_size = 0
    /\ freelist_trunk_page = 0
    /\ total_freelist_pages = 0
    /\ next_trunk_page = 0
    /\ pages_collected = 0
    /\ freelist_pages = <<>>
    /\ num_pages = 0
    /\ page_number = 0
    /\ records = <<>>
    /\ sink = <<>>
    /\ diag = <<>>
    /\ raised = ""
    /\ calls = <<>>
    /\ trunk_iters = 0
    /\ fn_in = <<>>
    /\ fn_out = <<>>

Spec == Init /\ [][Next]_vars

--------------------------------------------------------------------------
(* Properties of main, under Spec *)

\* how often x occurs in a sequence
Count(seq, x) == Cardinality({k \in 1..Len(seq) : seq[k] = x})

\* the tuples one call of parse_page appends for a page
PageTuples(page_no) == parse_page(data, page_no, page_size, <<>>).records

\* s is the start of t
IsPrefix(s, t) == Len(s) <= Len(t) /\ s = SubSeq(t, 1, Len(s))

\* C1: on a file shorter than 100 bytes or whose first 16 bytes are not the
\* magic, main only ever goes from its start to the fatal exit: the walker
\* runs no iteration, parse_page is never called, the record buffer stays
\* empty and nothing reaches the writer.
C1_RefusedBeforeParsing ==
    (Len(data) < 100 \/ SubSeq(data, 1, 16) # Magic) =>
        /\ pc \in {"start", "fatal"}
        /\ trunk_iters = 0
        /\ calls = <<>>
        /\ records = <<>>
        /\ sink = <<>>

\* a file of more than 100 bytes, with table pages, refused for its magic
C1_Witness == pc = "fatal" /\ Len(data) > 100 /\ diag # <<>>

\* C2: no call of parse_page made by main raises: whatever the page size and
\* the page index, a fault in a page never ends the run.
C2_ParsePageNeverRaises == raised # "parse_page"

\* C3: the walker terminates on every image.  Its loop reads only the
\* image, next_trunk_page and pages_collected, so an iteration that leaves
\* both as they were is repeated for ever: no iteration that stays in the
\* loop may do so.
C3_WalkerTerminates ==
    [][ (pc = "walk" /\ pc' = "walk") =>
            <<next_trunk_page', pages_collected'>> # <<next_trunk_page, pages_collected>> ]_vars

\* the loop runs no more iterations than the declared total
TotalBoundsTrunkIterations == trunk_iters <= total_freelist_pages

\* C4: when main has finished with a well-formed database, the tuple of
\* every row of every table-leaf page, page 1 included, is in the buffer.
C4_EveryLeafRowEmitted ==
    pc \in {"done", "norecords"} =>
        \A k \in 1..Len(rows) :
            \E j \in 1..Len(records) : records[j] = RowValues(rows[k].row)

\* The rows of the table-leaf pages after page 1 are in the buffer, in page
\* and cell order, ahead of anything recovered from the free list.
RowsBeyondPageOneEmitted ==
    pc \in {"done", "norecords"} =>
        LET later == SelectSeq(rows, LAMBDA r : r.page > 0)
        IN  IsPrefix([k \in 1..Len(later) |-> RowValues(later[k].row)], records)

\* C8: when the walker is at a trunk that lies outside the file, or whose
\* page has fewer than 8 bytes, its step prints one line, leaves the loop and
\* returns to main, which goes on to the page sweep, with the list as
\* collected so far (and the index of a short trunk appended), nothing
\* removed; and once the walker has returned, no further trunk is visited and
\* the list no longer changes.
C8_FaultKeepsCollected ==
    [][ /\ ( /\ pc = "walk"
             /\ next_trunk_page # 0
             /\ pages_collected < total_freelist_pages
             /\ \/ (next_trunk_page - 1) * page_size + page_size > Len(data)
                \/ page_size < 8 )
           => /\ pc' = "count"
              /\ raised' = ""
              /\ Len(diag') = Len(diag) + 1
              /\ trunk_iters' = trunk_iters + 1
              /\ freelist_pages' =
                    IF (next_trunk_page - 1) * page_size + page_size > Len(data)
                    THEN freelist_pages
                    ELSE Append(freelist_pages, next_trunk_page - 1)
        /\ pc \notin {"start", "walk"}
           => /\ freelist_pages' = freelist_pages
              /\ trunk_iters' = trunk_iters ]_vars

\* the walker has returned from a trunk outside the file with the trunk and
\* leaves it had collected before
C8_Witness ==
    /\ pc = "count"
    /\ diag # <<>>
    /\ diag[Len(diag)] = "page offset out of bounds"
    /\ Len(freelist_pages) >= 2
    /\ trunk_iters >= 2

\* C9: parse_page is called on the page indices 0 .. num_pages - 1 in
\* ascending order and then on the walker's list in its order, and the
\* buffer is the concatenation, in that order, of what each call yields; so
\* a page of the linear range that is once on the free list is parsed twice.
C9_TwoPhasesInOrder ==
    LET linear   == [k \in 1..num_pages |-> k - 1]
        expected == linear \o freelist_pages
    IN  /\ pc \in {"sweep", "free"} => IsPrefix(calls, expected)
        /\ pc = "sweep" => calls = SubSeq(linear, 1, page_number)
        /\ pc \in {"emit", "done", "norecords"} =>
              /\ calls = expected
              /\ records = Concat([k \in 1..Len(calls) |-> PageTuples(calls[k])])
              /\ \A q \in 0..(num_pages - 1) :
                    Count(freelist_pages, q) = 1 => Count(calls, q) = 2

\* main has finished on an image where a page of the linear range that
\* holds a row is once on the free list
C9_Witness ==
    /\ pc = "done"
    /\ \E q \in 0..(num_pages - 1) :
          /\ Count(freelist_pages, q) = 1
          /\ PageTuples(q) # <<>>
          /\ Count(records, PageTuples(q)[1]) = 2

\* C10: no tuple in the record buffer is empty.
C10_NoEmptyTuple == \A k \in 1..Len(records) : records[k] # <<>>

\* the pointers of a table page at which a record of no column decodes
EmptyRecordCells(page_data) ==
    IF Len(page_data) < 5 \/ page_data[1] \notin {TableLeaf, TableInterior} THEN {}
    ELSE LET ptrs == CellPointers(page_data, IF page_data[1] = TableLeaf THEN 8 ELSE 12,
                                  BigEndian(PySlice(page_data, 3, 5)))
         IN  {k \in 1..Len(ptrs) :
                LET r == Cell(page_data, page_data[1], ptrs[k])
                IN  r.ok /\ r.values = <<>>}

\* parse_page has been through a page with a record of no column and has
\* emitted a tuple
C10_Witness ==
    /\ records # <<>>
    /\ pc \in {"sweep", "free"}
    /\ \E k \in 1..Len(calls) :
          EmptyRecordCells(PageData(data, calls[k], page_size)) # {}

--------------------------------------------------------------------------
(* The state of main before it runs, for the specifications that apply one
   function to drawn arguments *)

NoCall == [raised |-> FALSE, records |-> <<>>]

Idle ==
    /\ data = <<>>
    /\ page_size = 0
    /\ freelist_trunk_page = 0
    /\ total_freelist_pages = 0
    /\ next_trunk_page = 0
    /\ pages_collected = 0
    /\ freelist_pages = <<>>
    /\ num_pages = 0
    /\ page_number = 0
    /\ records = <<>>
    /\ sink = <<>>
    /\ diag = <<>>
    /\ raised = ""
    /\ calls = <<>>
    /\ trunk_iters = 0
    /\ rows = <<>>

main_vars == <<data, page_size, freelist_trunk_page, total_freelist_pages,
               next_trunk_page, pages_collected, freelist_pages, num_pages,
               page_number, records, sink, diag, raised, calls, trunk_iters, rows>>

RECURSIVE Strings(_, _)
\* the byte strings of length n over an alphabet
Strings(alphabet, n) ==
    IF n = 0 THEN {<<>>}
    ELSE {Append(s, b) : s \in Strings(alphabet, n - 1), b \in alphabet}

--------------------------------------------------------------------------
(* SpecVarint: read_varint applied to drawn byte strings and offsets *)

\* longest byte string handed to read_varint
MaxVarintLen == 10

\* largest offset handed to read_varint
MaxVarintOffset == 1

\* one byte with the high bit clear and one with it set, low bits differing
VarintBytes == {42, 213}

InitVarint ==
    /\ Idle
    /\ pc = "drawn"
    /\ \E n \in 0..MaxVarintLen, offset \in 0..MaxVarintOffset :
          \E d \in Strings(VarintBytes, n) : fn_in = [d |-> d, offset |-> offset]
    /\ fn_out = read_varint(<<>>, 0)

ApplyVarint ==
    /\ pc = "drawn"
    /\ fn_out' = read_varint(fn_in.d, fn_in.offset)
    /\ pc' = "returned"
    /\ UNCHANGED <<main_vars, fn_in>>

SpecVarint == InitVarint /\ [][ApplyVarint]_vars

\* the bytes read_varint is given from the offset on
VarintTail == PySlice(fn_in.d, fn_in.offset, Len(fn_in.d))

\* how many bytes a varint at the head of s takes: up to and including the
\* first of its first 8 bytes with the high bit clear, else 9; 0 when s ends
\* before that
VarintSpan(s) ==
    LET stops == {k \in 1..Min(Len(s), 8) : s[k] < 128}
    IN  IF stops # {} THEN CHOOSE k \in stops : \A j \in stops : k <= j
        ELSE IF Len(s) >= 9 THEN 9 ELSE 0

\* the value of the SQLite varint of n bytes at the head of s, as a 64-bit
\* numeral: 7 bits of each of the first 8 bytes, all 8 bits of a ninth
VarintValue(s, n) ==
    LET low7 == Concat([k \in 1..Min(n, 8) |-> Bits(s[k] % 128, 7)])
        all  == IF n = 9 THEN low7 \o Bits(s[9], 8) ELSE low7
    IN  Repeat(0, 64 - Len(all)) \o all

\* a numeral widened to 64 bits
Wide(b) == Repeat(0, 64 - Len(b)) \o b

\* C6: whenever read_varint returns, it has consumed the bytes of the varint
\* at the offset and its value is the low 7 bits of each of the first 8 bytes
\* and, when a ninth byte is reached, all 8 bits of that byte.
C6_NinthByteFull ==
    (pc = "returned" /\ fn_out.ok) =>
        /\ fn_out.n = VarintSpan(VarintTail)
        /\ Wide(fn_out.value) = VarintValue(VarintTail, fn_out.n)

\* C6 on the varints of at most 8 bytes
C6_UpToEightBytes ==
    (pc = "returned" /\ fn_out.ok /\ fn_out.n <= 8) =>
        /\ fn_out.n = VarintSpan(VarintTail)
        /\ Wide(fn_out.value) = VarintValue(VarintTail, fn_out.n)

\* read_varint raises exactly when the string ends inside the varint
C6_RaisesWhenTruncated ==
    pc = "returned" => (fn_out.ok <=> VarintSpan(VarintTail) > 0)

--------------------------------------------------------------------------
(* SpecRecord: parse_record applied to drawn payloads *)

\* most serial types in a drawn record header
MaxColumns == 2

\* most body bytes after a drawn record header
MaxBodyLen == 9

\* a serial type of every kind: NULL, the six integer widths, float, the
\* constants, a reserved code, blobs and texts of 1 and 2 bytes
RecordTypes == {0, 1, 2, 3, 4, 5, 6, 7, 8, 9, 10, 14, 15, 16, 17}

\* bodies are the leading bytes of these
BodyBytes == {<<200, 65, 66, 67, 68, 69, 70, 71, 72, 73>>,
              <<65, 195, 169, 66, 67, 68, 69, 70, 71, 72>>}

RECURSIVE TypeLists(_)
TypeLists(n) ==
    IF n = 0 THEN {<<>>}
    ELSE {Append(ts, t) : ts \in TypeLists(n - 1), t \in RecordTypes}

\* A payload: a header length that is right, one short or one long, the
\* serial types, and a body cut at any length; parse_page passes the
\* declared payload length, which is the length of the slice or more.
InitRecord ==
    /\ Idle
    /\ pc = "drawn"
    /\ \E n \in 0..MaxColumns, len \in 0..MaxBodyLen, skew \in {-1, 0, 1}, more \in {0, 3} :
          \E ts \in TypeLists(n), body \in BodyBytes :
              \/ /\ 1 + n + skew >= 0
                 /\ fn_in = [d |-> <<1 + n + skew>> \o ts \o SubSeq(body, 1, len),
                             payload_length |-> 1 + n + len + more]
              \/ /\ n = 0 /\ len = 0 /\ skew = 0
                 /\ fn_in = [d |-> <<>>, payload_length |-> more]
    /\ fn_out = Rejected

ApplyRecord ==
    /\ pc = "drawn"
    /\ fn_out' = parse_record(fn_in.d, 0, fn_in.payload_length)
    /\ pc' = "returned"
    /\ UNCHANGED <<main_vars, fn_in>>

SpecRecord == InitRecord /\ [][ApplyRecord]_vars

\* the bytes the format gives a value of a serial type
Width(serial_type) ==
    CASE serial_type \in {0, 8, 9, 10, 11} -> 0
      [] serial_type \in {1, 2, 3, 4}      -> serial_type
      [] serial_type = 5                   -> 6
      [] serial_type \in {6, 7}            -> 8
      [] serial_type >= 12                 -> (serial_type - 12) \div 2

RECURSIVE Sum(_)
Sum(ns) == IF ns = <<>> THEN 0 ELSE Head(ns) + Sum(Tail(ns))

\* the header of the drawn payload as the decoder reads it
DrawnHeader ==
    LET h == read_varint(fn_in.d, 0)
    IN  IF ~h.ok THEN [ok |-> FALSE, length |-> 0, types |-> <<>>]
        ELSE LET st == SerialTypes(fn_in.d, h.n, h.n, Num(h.value), <<>>)
             IN  [ok |-> st.ok, length |-> Num(h.value), types |-> st.types]

\* the header varints cannot be read to the end
HeaderTruncated ==
    \/ ~read_varint(fn_in.d, 0).ok
    \/ /\ Num(read_varint(fn_in.d, 0).value) <= fn_in.payload_length
       /\ ~DrawnHeader.ok

\* the values the header declares end past the payload bytes there are
ValueOverrun ==
    /\ DrawnHeader.ok
    /\ DrawnHeader.length <= fn_in.payload_length
    /\ DrawnHeader.length
         + Sum([k \in 1..Len(DrawnHeader.types) |-> Width(DrawnHeader.types[k])])
       > Len(fn_in.d)

\* C7: parse_record returns None whenever a header varint is truncated or a
\* value of any serial type is declared longer than the payload bytes left.
C7_RejectsEveryFault ==
    (pc = "returned" /\ (HeaderTruncated \/ ValueOverrun)) => ~fn_out.ok

\* parse_record returns None when a header varint is truncated
RejectsTruncatedHeader == (pc = "returned" /\ HeaderTruncated) => ~fn_out.ok

\* the serial types struct.unpack decodes
StructTypes == {1, 2, 4, 6, 7}

\* parse_record returns None when a value read by struct.unpack is short;
\* when only blobs, texts and 3- and 6-byte integers are short it returns
\* the values cut to the bytes there are
RejectsShortStructValues ==
    (pc = "returned" /\ ValueOverrun) =>
        LET types  == DrawnHeader.types
            starts == [k \in 1..Len(types) |->
                         DrawnHeader.length + Sum([j \in 1..(k - 1) |-> Width(types[j])])]
            short  == {k \in 1..Len(types) : starts[k] + Width(types[k]) > Len(fn_in.d)}
        IN  fn_out.ok <=> \A k \in short : types[k] \notin StructTypes

--------------------------------------------------------------------------
(* SpecCorrupt: parse_page on a table page before and after one of its
   cells is damaged *)

\* most cells on a drawn page
MaxCells == 3

\* the size of the drawn pages
CorruptPageSize == 64

\* How a cell is damaged: its pointer is set to 0xFFFF or to the page size,
\* its payload length to 0 (no header varint is left to read), or the header
\* length of its record to 127 (more than its payload).
Damages == {"pointer_ffff", "pointer_end", "payload_length", "header_length"}

\* the rows of the drawn cells; the row of no column is stored as the
\* record <<1>>
CellRows == {RowMenu[m] : m \in 1..Len(RowMenu)} \cup {<<>>}

RECURSIVE RowLists(_)
RowLists(n) ==
    IF n = 0 THEN {<<>>}
    ELSE {Append(rs, r) : rs \in RowLists(n - 1), r \in CellRows}

\* the cells of the drawn page
DrawnCells(page_type, rs) ==
    [k \in 1..Len(rs) |->
        IF page_type = TableLeaf THEN LeafCell(k, EncRecord(rs[k]))
        ELSE InteriorCell(k + 1, k, EncRecord(rs[k]))]

DrawnPage(page_type, rs) == BTreePage(0, page_type, DrawnCells(page_type, rs), CorruptPageSize)

\* the page with cell k damaged
Damaged(page_type, rs, k, damage) ==
    LET page     == DrawnPage(page_type, rs)
        slot     == (IF page_type = TableLeaf THEN 8 ELSE 12) + 2 * (k - 1)
        cell     == CellOffset(DrawnCells(page_type, rs), k, CorruptPageSize)
        header   == cell + (IF page_type = TableLeaf THEN 2 ELSE 3)
    IN  CASE damage = "pointer_ffff" ->
                 SubSeq(page, 1, slot) \o U16(65535) \o SubSeq(page, slot + 3, Len(page))
          [] damage = "pointer_end" ->
                 SubSeq(page, 1, slot) \o U16(CorruptPageSize)
                 \o SubSeq(page, slot + 3, Len(page))
          [] damage = "payload_length" -> WithByte(page, cell, 0)
          [] damage = "header_length"  -> WithByte(page, header, 127)

InitCorrupt ==
    /\ Idle
    /\ pc = "drawn"
    /\ \E n \in 1..MaxCells, page_type \in {TableLeaf, TableInterior}, damage \in Damages :
          \E rs \in RowLists(n), k \in 1..n :
              fn_in = [page_type |-> page_type, rows |-> rs, cell |-> k, damage |-> damage]
    /\ fn_out = [before |-> NoCall, after |-> NoCall, damaged |-> <<>>]

\* parse_page on the page as written
ParseIntact ==
    /\ pc = "drawn"
    /\ fn_out' = [fn_out EXCEPT
                    !.before = parse_page(DrawnPage(fn_in.page_type, fn_in.rows), 0,
                                          CorruptPageSize, <<>>)]
    /\ pc' = "parsed"
    /\ UNCHANGED <<main_vars, fn_in>>

\* the cell is damaged and parse_page runs on the damaged page
ParseDamaged ==
    /\ pc = "parsed"
    /\ LET page == Damaged(fn_in.page_type, fn_in.rows, fn_in.cell, fn_in.damage)
       IN  fn_out' = [fn_out EXCEPT
                        !.damaged = page,
                        !.after = parse_page(page, 0, CorruptPageSize, <<>>)]
    /\ pc' = "returned"
    /\ UNCHANGED <<main_vars, fn_in>>

NextCorrupt == ParseIntact \/ ParseDamaged

SpecCorrupt == InitCorrupt /\ [][NextCorrupt]_vars

\* the tuples of the rows of the drawn page, one per cell with a column,
\* without those of the cells in skip
TuplesWithout(skip) ==
    Concat([k \in 1..Len(fn_in.rows) |->
              IF k \in skip \/ fn_in.rows[k] = <<>> THEN <<>>
              ELSE <<RowValues(fn_in.rows[k])>>])

\* C5: damaging one cell of a table page (its pointer moved outside the
\* page, its varints or its record made undecodable) takes that cell's tuple
\* out of what parse_page yields and nothing else: parse_page still returns,
\* and the tuples of the other cells are those of the intact page, in the
\* same order.
C5_OtherCellsUnaffected ==
    /\ pc \in {"parsed", "returned"} =>
          /\ ~fn_out.before.raised
          /\ fn_out.before.records = TuplesWithout({})
    /\ pc = "returned" =>
          /\ ~fn_out.after.raised
          /\ fn_out.after.records = TuplesWithout({fn_in.cell})

\* the second of three cells that each hold a row has its pointer set to
\* 0xFFFF, and the other two tuples have been emitted
C5_Witness ==
    /\ pc = "returned"
    /\ Len(fn_in.rows) = 3
    /\ fn_in.cell = 2
    /\ fn_in.damage = "pointer_ffff"
    /\ Len(fn_out.before.records) = 3
    /\ Len(fn_out.after.records) = 2

====
